---- MODULE Spec2Model ----
(***************************************************************************)
(* A model of ph-archive's src/main.py: the template expander              *)
(* (substitute, expand_targets), the path-safety check (is_safe_path),     *)
(* the bounded-retry fetcher (fetch_url), the per-partition runner          *)
(* (process_language_targets) and the orchestrator (main).                  *)
(*                                                                         *)
(* Strings are modelled at the granularity the program's logic sees them:  *)
(* a string is a sequence of pieces, and for a file path the pieces are    *)
(* the "/"-separated components.  "" is the empty sequence.  A piece that  *)
(* is a template token ("{lang}", "${base}") is listed in TokenVar.        *)
(* A leading piece "/" makes a path absolute.                              *)
(***************************************************************************)
EXTENDS Integers, Sequences, FiniteSets, TLC

----------------------------------------------------------------------------
(* Program constants (src/main.py:25-28)                                   *)

CAPTURES_DIR == <<"rss">>
MAX_RETRIES == 3
BACKOFF_FACTOR == 2

(* ThreadPoolExecutor() is built without max_workers (src/main.py:390);    *)
(* the library then uses min(32, (os.cpu_count() or 1) + 4).  os_cpu_count *)
(* is the smallest machine, which gives the smallest pool.                 *)
os_cpu_count == 1

Min(a, b) == IF a < b THEN a ELSE b

max_workers == Min(32, os_cpu_count + 4)

(* The process's working directory, against which realpath resolves the    *)
(* relative CAPTURES_DIR.                                                  *)
Cwd == <<"work">>

----------------------------------------------------------------------------
(* Generic helpers                                                         *)

Range(s) == {s[i] : i \in DOMAIN s}

RECURSIVE Pow(_, _)
Pow(b, e) == IF e = 0 THEN 1 ELSE b * Pow(b, e - 1)

RECURSIVE Concat(_)
(* the concatenation of a sequence of sequences *)
Concat(ss) == IF ss = <<>> THEN <<>> ELSE Head(ss) \o Concat(Tail(ss))

EmptyDict == [k \in {} |-> <<>>]

(* {**a, **b}: b shadows a *)
Merge(a, b) == b @@ a

----------------------------------------------------------------------------
(* substitute (src/main.py:40-46)                                          *)

(* The pieces the pattern \$?\{([^}]+)\} matches, with their group(1).    *)
TokenVar ==
    [p \in {"{lang}", "${lang}", "{langs}", "{base}", "{kind}", "{kinds}", "{today}",
            "{tag}", "{x}"} |->
        CASE p = "{lang}" -> "lang"
          [] p = "{langs}" -> "langs"
          [] p = "{kinds}" -> "kinds"
          [] p = "${lang}" -> "lang"
          [] p = "{base}" -> "base"
          [] p = "{kind}" -> "kind"
          [] p = "{today}" -> "today"
          [] p = "{tag}" -> "tag"
          [] p = "{x}" -> "x"]

(* datetime.now(timezone.utc).strftime('%Y-%m-%d') *)
Today == <<"2026-11-01">>

replacer(piece, variables) ==
    IF piece \in DOMAIN TokenVar /\ TokenVar[piece] \in DOMAIN variables
    THEN variables[TokenVar[piece]]
    ELSE <<piece>>

substitute(template, variables) ==
    LET vars2 == Merge(variables, [today |-> Today])
    IN Concat([i \in DOMAIN template |-> replacer(template[i], vars2)])

----------------------------------------------------------------------------
(* is_safe_path (src/main.py:31-34) and the os.path functions it uses      *)

IsAbs(path) == path /= <<>> /\ path[1] = "/"

(* os.path.join(a, b): an absolute b discards a *)
join(a, b) == IF IsAbs(b) THEN b ELSE a \o b

RECURSIVE Normalize(_, _)
(* components of an absolute path, folded left to right: "" and "." and a  *)
(* repeated "/" vanish, ".." pops (and stays at the root)                  *)
Normalize(acc, rest) ==
    IF rest = <<>> THEN acc
    ELSE LET c == Head(rest)
         IN IF c \in {"", ".", "/"} THEN Normalize(acc, Tail(rest))
            ELSE IF c = ".."
                 THEN Normalize(IF acc = <<>> THEN acc ELSE SubSeq(acc, 1, Len(acc) - 1),
                                Tail(rest))
                 ELSE Normalize(Append(acc, c), Tail(rest))

(* os.path.realpath on a file system without symbolic links: the absolute, *)
(* normalized path, as the sequence of its components below "/"            *)
realpath(path) ==
    IF IsAbs(path) THEN Normalize(<<>>, path) ELSE Normalize(<<>>, Cwd \o path)

RECURSIVE CommonPrefix(_, _)
CommonPrefix(a, b) ==
    IF a = <<>> \/ b = <<>> \/ Head(a) /= Head(b) THEN <<>>
    ELSE <<Head(a)>> \o CommonPrefix(Tail(a), Tail(b))

(* os.path.commonpath of one or two absolute normalized paths *)
commonpath(paths) ==
    IF Len(paths) = 1 THEN paths[1] ELSE CommonPrefix(paths[1], paths[2])

(* the paths compared as given, without realpath *)
is_safe_path_unresolved(base_dir, path) ==
    commonpath(<<base_dir>>) = commonpath(<<base_dir, path>>)

is_safe_path(base_dir, path) ==
    LET b == realpath(base_dir)
        p == realpath(path)
    IN commonpath(<<b>>) = commonpath(<<b, p>>)

os_path_dirname(path) ==
    IF path = <<>> THEN <<>> ELSE SubSeq(path, 1, Len(path) - 1)

----------------------------------------------------------------------------
(* expand_targets (src/main.py:48-118)                                     *)
(* A dict value is [scalar |-> string] or [list |-> sequence of strings].  *)

isinstance_list(v) == "list" \in DOMAIN v

(* All dict keys of the configurations, in the order sorted() gives them.  *)
KeyOrder == <<"archive_base_url", "base", "kind", "kinds", "lang", "langs", "tags">>

sorted(keys) == SelectSeq(KeyOrder, LAMBDA k : k \in keys)

(* key.endswith('s'), for the keys of KeyOrder *)
endswith_s(key) == key \in {"kinds", "langs", "tags"}

(* key[:-1], for the keys that end in "s" *)
StripLast(key) ==
    CASE key = "kinds" -> "kind"
      [] key = "langs" -> "lang"
      [] key = "tags" -> "tag"
      [] OTHER -> key

fixed_of(d) == [k \in {q \in DOMAIN d : ~isinstance_list(d[q])} |-> d[k].scalar]

list_of(d) == [k \in {q \in DOMAIN d : isinstance_list(d[q])} |-> d[k].list]

(* lines 54-57; every modelled key has more than one character *)
list_var_template_names_map(list_defs) ==
    [key \in DOMAIN list_defs |-> IF endswith_s(key) THEN StripLast(key) ELSE key]

dict_get(d, key, default) == IF key \in DOMAIN d THEN d[key] ELSE default

(* only the first axis varies *)
product_first_axis_only(lists) ==
    IF lists = <<>> THEN << <<>> >>
    ELSE IF \E j \in DOMAIN lists : lists[j] = <<>> THEN <<>>
    ELSE [i \in DOMAIN lists[1] |->
             [j \in DOMAIN lists |-> IF j = 1 THEN lists[1][i] ELSE lists[j][1]]]

RECURSIVE product(_)
(* itertools.product: the last axis varies fastest *)
product(lists) ==
    IF lists = <<>> THEN << <<>> >>
    ELSE LET rest == product(Tail(lists))
             first == Head(lists)
         IN Concat([i \in DOMAIN first |->
                        [j \in DOMAIN rest |-> <<first[i]>> \o rest[j]]])

RECURSIVE AssignAll(_, _, _)
(* d[names[i]] = values[i] for i in order: a later assignment overwrites *)
AssignAll(d, names, values) ==
    IF names = <<>> THEN d
    ELSE AssignAll(Merge(d, Head(names) :> Head(values)), Tail(names), Tail(values))

(* lines 62-73 *)
defs_combinations(list_defs) ==
    IF DOMAIN list_defs /= {}
    THEN LET list_product_keys == sorted(DOMAIN list_defs)
             list_product_values == [i \in DOMAIN list_product_keys |->
                                        list_defs[list_product_keys[i]]]
             names == [i \in DOMAIN list_product_keys |->
                          dict_get(list_var_template_names_map(list_defs),
                                   list_product_keys[i], list_product_keys[i])]
             combos == product(list_product_values)
         IN [c \in DOMAIN combos |-> AssignAll(EmptyDict, names, combos[c])]
    ELSE <<EmptyDict>>

(* lines 89-97: no singularization of the target's own list names *)
target_combinations(list_target_vars) ==
    IF DOMAIN list_target_vars /= {}
    THEN LET target_list_product_keys == sorted(DOMAIN list_target_vars)
             target_list_product_values == [i \in DOMAIN target_list_product_keys |->
                                        list_target_vars[target_list_product_keys[i]]]
             combos == product(target_list_product_values)
         IN [c \in DOMAIN combos |->
                AssignAll(EmptyDict, target_list_product_keys, combos[c])]
    ELSE <<EmptyDict>>

(* `if lang is not None` in place of `if lang` *)
expanded_entry_tags_empty(target, all_vars, lang_key) ==
    LET filepath == substitute(dict_get(target, "filepath", <<>>), all_vars)
        url == substitute(dict_get(target, "url", <<>>), all_vars)
        entry == [filepath |-> filepath, url |-> url]
    IN IF lang_key \in DOMAIN all_vars
       THEN Merge(entry, [lang |-> all_vars[lang_key]])
       ELSE entry

(* lines 99-116: one emitted entry; lang is None (absent) or falsy ("")    *)
(* when the entry gets no tag                                             *)
expanded_entry(target, all_vars, lang_key) ==
    LET filepath == substitute(dict_get(target, "filepath", <<>>), all_vars)
        url == substitute(dict_get(target, "url", <<>>), all_vars)
        entry == [filepath |-> filepath, url |-> url]
    IN IF lang_key \in DOMAIN all_vars /\ all_vars[lang_key] /= <<>>
       THEN Merge(entry, [lang |-> all_vars[lang_key]])
       ELSE entry

(* lines 75-116 for one defs combination and one target *)
expand_one(defs, defs_combo, target) ==
    LET fixed_defs == fixed_of(defs)
        list_defs == list_of(defs)
        current_base_vars_for_base_sub == Merge(fixed_defs, defs_combo)
        base_template == IF "base" \in DOMAIN fixed_defs THEN fixed_defs["base"] ELSE <<>>
        current_base_vars ==
            Merge(current_base_vars_for_base_sub,
                  [base |-> substitute(base_template, current_base_vars_for_base_sub)])
        target_vars == dict_get(target, "vars", EmptyDict)
        fixed_target_vars == fixed_of(target_vars)
        combos == target_combinations(list_of(target_vars))
        lang_key == dict_get(list_var_template_names_map(list_defs), "langs", "langs")
    IN [c \in DOMAIN combos |->
           expanded_entry(target,
                          Merge(Merge(current_base_vars, fixed_target_vars), combos[c]),
                          lang_key)]

expand_targets(defs, targets) ==
    LET dcs == defs_combinations(list_of(defs))
    IN Concat([d \in DOMAIN dcs |->
                  Concat([t \in DOMAIN targets |-> expand_one(defs, dcs[d], targets[t])])])


----------------------------------------------------------------------------
(* Bounds of the model                                                     *)

(* invocations of the program on the same file system *)
MaxRuns == 2
(* destinations that are not yet archived (absent or empty) at the start *)
MaxPending == 2
(* the longest list axis of the dry-run configurations *)
MaxAxis == 2
(* languages of the configuration with more partitions than pool threads *)
PoolLangs == 6

----------------------------------------------------------------------------
(* Configurations (config.json: "defs" and "target")                       *)

S(x) == [scalar |-> x]
L(xs) == [list |-> xs]

AxisValues == << <<"en">>, <<"fr">>, <<"de">>, <<"es">>, <<"it">>, <<"pt">>,
                 <<"nl">>, <<"pl">> >>

Prefix(seq, n) == SubSeq(seq, 1, Min(n, Len(seq)))

FeedTarget == [filepath |-> <<"{lang}", "feed.xml">>, url |-> <<"https://source", "{lang}">>]

(* one partition per language, one destination each *)
CfgLangs ==
    [defs |-> [langs |-> L(Prefix(AxisValues, 2)), archive_base_url |-> S(<<"https://a">>)],
     target |-> <<FeedTarget>>]

(* the filepath template forgets {lang}: both partitions get the same file *)
CfgCollision ==
    [defs |-> [langs |-> L(Prefix(AxisValues, 2))],
     target |-> <<[filepath |-> <<"feed.xml">>, url |-> <<"https://source", "{lang}">>]>>]

(* no language axis: one default partition with two entries *)
CfgDefault ==
    [defs |-> [base |-> S(<<"https://source">>)],
     target |-> <<[filepath |-> <<"{kinds}", "feed.xml">>, url |-> <<"{base}", "{kinds}">>,
                   vars |-> [kinds |-> L(<< <<"new">>, <<"top">> >>)]]>>]

(* one partition whose two entries name the same file *)
CfgDuplicate ==
    [defs |-> [base |-> S(<<"https://source">>)],
     target |-> <<[filepath |-> <<"feed.xml">>, url |-> <<"{base}", "{kinds}">>,
                   vars |-> [kinds |-> L(<< <<"new">>, <<"top">> >>)]]>>]

(* filepaths that leave the output root, relative and absolute, then a    *)
(* well-formed one                                                        *)
CfgUnsafe ==
    [defs |-> [lang |-> S(<<"en">>)],
     target |-> <<[filepath |-> <<"..", "evil", "feed.xml">>, url |-> <<"https://source", "a">>],
                  [filepath |-> <<"/", "etc", "cron.d", "feed.xml">>, url |-> <<"https://source", "b">>],
                  [filepath |-> <<"{lang}", "..", "{lang}", "feed.xml">>, url |-> <<"https://source", "c">>]>>]

(* more languages than the pool has threads *)
CfgPool ==
    [defs |-> [langs |-> L(Prefix(AxisValues, PoolLangs))],
     target |-> <<FeedTarget>>]

RunConfigs == {CfgLangs, CfgCollision, CfgDefault, CfgDuplicate, CfgUnsafe, CfgPool}


(* The configurations of the dry runs: every choice of the axes below.     *)
Absent == [absent |-> TRUE]

Opt(key, choice) == IF "absent" \in DOMAIN choice THEN EmptyDict ELSE key :> choice

AxisChoices == {L(Prefix(AxisValues, n)) : n \in 0..MaxAxis}

DryDefs ==
    {Opt("langs", a) @@ Opt("lang", b) @@ Opt("tags", c) :
        a \in AxisChoices \cup {Absent, S(<<"xx">>), L(<< <<>> >>)},
        b \in {Absent, L(<< <<"zz">>, <<"yy">> >>)},
        c \in AxisChoices \cup {Absent}}

DryTargetVars ==
    {Opt("lang", a) @@ Opt("kinds", b) :
        a \in {Absent, S(<<"tv">>), L(<< <<"tl">> >>)},
        b \in AxisChoices \cup {Absent}}

DryTemplate == [filepath |-> <<"{lang}", "{kinds}", "{tag}", "feed.xml">>,
                url |-> <<"https://source", "${lang}", "{x}">>]

DryConfigs ==
    {[defs |-> d, target |-> <<Merge(DryTemplate, [vars |-> v])>> \o rest] :
        d \in DryDefs, v \in DryTargetVars, rest \in {<<>>, <<FeedTarget>>}}

----------------------------------------------------------------------------
(* The file system                                                         *)

(* the resolved destination of an entry: realpath(join(CAPTURES_DIR, f)) *)
Dest(entry) == realpath(join(CAPTURES_DIR, entry.filepath))

Dests(cfg) == {Dest(e) : e \in Range(expand_targets(cfg.defs, cfg.target))}

FileStates == {"absent", "empty", "nonempty"}

(* the initial file systems explored for a configuration: at most          *)
(* MaxPending destinations still to archive, and none for a configuration  *)
(* of more than four destinations                                          *)
InitialFiles(cfg) ==
    LET pending == IF Cardinality(Dests(cfg)) > 4 THEN 0 ELSE MaxPending
    IN {f \in [Dests(cfg) -> FileStates] :
           Cardinality({d \in Dests(cfg) : f[d] /= "nonempty"}) <= pending}

(* dir and every ancestor of it *)
Ancestors(dir) == {SubSeq(dir, 1, n) : n \in 0..Len(dir)}

IsUnder(root, path) == Len(path) >= Len(root) /\ SubSeq(path, 1, Len(root)) = root

Root == realpath(CAPTURES_DIR)


----------------------------------------------------------------------------
(* State                                                                   *)

VARIABLES
    config,            \* config.json, as load_config returns it
    dry_run,           \* args.dry_run
    run,               \* which invocation of the program this is
    mainPc,            \* main's position
    expanded,          \* main's worklist
    language_groups,   \* main's dict: partition key -> its entries, in order
    submitted,         \* the partition keys in the order their tasks were submitted
    worker,            \* per partition: the task running process_language_targets
    collected,         \* the futures as_completed has yielded so far
    failures,          \* main's aggregated failure list
    notification,      \* the failure lists handed to send_telegram_message
    fs,                \* resolved destination path -> state of the file there
    created,           \* directories the program has created (resolved paths)
    log,               \* history: per partition, the outcome of each entry so far
    fetched,           \* history: the <<partition, index>> with at least one GET
    writes,            \* history: the writes of save_content in this run
    prev_all_persisted \* history: the previous run persisted every entry

vars == <<config, dry_run, run, mainPc, expanded, language_groups, submitted, worker,
          collected, failures, notification, fs, created, log, fetched, writes,
          prev_all_persisted>>

None == "None"
NO_URL == <<"[NO URL]">>
DefaultLang == <<"default">>

(* what a GET can come back with: a status (and a body), or an exception   *)
RetryableStatus == {429, 500, 502, 503, 504}
OtherStatus == {404, 403}
(* resp.text of a 200: empty, not XML, XML whose transformation raises,    *)
(* and an Atom feed                                                        *)
Bodies == {"", "malformed", "untransformable", "atom"}

Responses ==
    {[status |-> 200, text |-> b] : b \in Bodies}
    \cup {[status |-> st, text |-> ""] : st \in RetryableStatus \cup OtherStatus}
    \cup {[exception |-> "RequestException"]}

IdleWorker == [pc |-> "queued", i |-> 1, language_failures |-> <<>>,
               attempt |-> 0, slept |-> <<>>, content |-> None]

NoWorkers == [l \in {} |-> IdleWorker]

Init ==
    /\ \/ /\ dry_run = FALSE
          /\ config \in RunConfigs
          /\ fs \in InitialFiles(config)
       \/ /\ dry_run = TRUE
          /\ config \in DryConfigs
          /\ fs = [d \in Dests(config) |-> "absent"]
    /\ run = 1
    /\ mainPc = "generate_folders"
    /\ expanded = <<>>
    /\ language_groups = NoWorkers
    /\ submitted = <<>>
    /\ worker = NoWorkers
    /\ collected = {}
    /\ failures = <<>>
    /\ notification = <<>>
    /\ created = {}
    /\ log = NoWorkers
    /\ fetched = {}
    /\ writes = {}
    /\ prev_all_persisted = FALSE

----------------------------------------------------------------------------
(* The directories that exist: the working directory's, those of the files *)
(* that exist, and those the program made                                  *)

Exists(dir) ==
    \/ dir \in Ancestors(realpath(<<>>))
    \/ dir \in created
    \/ \E d \in DOMAIN fs : fs[d] /= "absent" /\ dir \in Ancestors(os_path_dirname(d))

(* os.makedirs(dir, exist_ok=True): the directories it has to make *)
makedirs(dir) == {a \in Ancestors(realpath(dir)) : ~Exists(a)}

(* generate_folders (src/main.py:309-317) *)
generate_folders(defs, targets) ==
    LET entries == expand_targets(defs, targets)
    IN UNION {makedirs(os_path_dirname(join(CAPTURES_DIR, entries[k].filepath))) :
                 k \in {j \in DOMAIN entries : "filepath" \in DOMAIN entries[j]}}

(* main, line 348 *)
GenerateFolders ==
    /\ mainPc = "generate_folders"
    /\ created' = created \cup generate_folders(config.defs, config.target)
    /\ mainPc' = "expand"
    /\ UNCHANGED <<config, dry_run, run, expanded, language_groups, submitted, worker,
                   collected, failures, notification, fs, log, fetched, writes,
                   prev_all_persisted>>

(* main, line 349 (the run is not in test mode) *)
Expand ==
    /\ mainPc = "expand"
    /\ expanded' = expand_targets(config.defs, config.target)
    /\ mainPc' = IF dry_run THEN "dry_run" ELSE "group"
    /\ UNCHANGED <<config, dry_run, run, language_groups, submitted, worker, collected,
                   failures, notification, fs, created, log, fetched, writes,
                   prev_all_persisted>>

(* main, lines 363-375: print the entries and return *)
DryRun ==
    /\ mainPc = "dry_run"
    /\ mainPc' = "finished"
    /\ UNCHANGED <<config, dry_run, run, expanded, language_groups, submitted, worker,
                   collected, failures, notification, fs, created, log, fetched, writes,
                   prev_all_persisted>>

(* entry.get('lang', 'default') *)
GroupKey(entry) == dict_get(entry, "lang", DefaultLang)

RECURSIVE FirstSeen(_, _)
(* the keys of a dict filled in this order, in insertion order *)
FirstSeen(keys, seen) ==
    IF keys = <<>> THEN <<>>
    ELSE IF Head(keys) \in seen THEN FirstSeen(Tail(keys), seen)
         ELSE <<Head(keys)>> \o FirstSeen(Tail(keys), seen \cup {Head(keys)})

(* main, lines 382-387 *)
group_by_language(entries) ==
    [l \in {GroupKey(e) : e \in Range(entries)} |->
        SelectSeq(entries, LAMBDA e : GroupKey(e) = l)]

(* main, lines 377-394: group the worklist and submit one task per group *)
GroupAndSubmit ==
    /\ mainPc = "group"
    /\ language_groups' = group_by_language(expanded)
    /\ submitted' = FirstSeen([k \in DOMAIN expanded |-> GroupKey(expanded[k])], {})
    /\ worker' = [l \in DOMAIN language_groups' |-> IdleWorker]
    /\ log' = [l \in DOMAIN language_groups' |-> <<>>]
    /\ failures' = <<>>
    /\ mainPc' = "as_completed"
    /\ UNCHANGED <<config, dry_run, run, expanded, collected, notification, fs, created,
                   fetched, writes, prev_all_persisted>>


----------------------------------------------------------------------------
(* The pool (concurrent.futures.ThreadPoolExecutor, src/main.py:390-394)   *)

Running == {l \in DOMAIN worker : worker[l].pc \in {"entry", "fetch", "process"}}

Done == {l \in DOMAIN worker : worker[l].pc \in {"returned", "raised"}}

(* a pool thread is free to take the next queued task *)
PoolHasIdleThread == Cardinality(Running) < max_workers

(* the queue is first in, first out *)
IsNextQueued(l) ==
    \E k \in DOMAIN submitted :
        /\ submitted[k] = l
        /\ \A j \in 1..(k - 1) : worker[submitted[j]].pc /= "queued"

StartWorker(l) ==
    /\ mainPc = "as_completed"
    /\ worker[l].pc = "queued"
    /\ IsNextQueued(l)
    /\ PoolHasIdleThread
    /\ worker' = [worker EXCEPT ![l].pc = "entry"]
    /\ UNCHANGED <<config, dry_run, run, mainPc, expanded, language_groups, submitted,
                   collected, failures, notification, fs, created, log, fetched, writes,
                   prev_all_persisted>>

----------------------------------------------------------------------------
(* process_language_targets (src/main.py:122-172)                          *)

Entry(l) == language_groups[l][worker[l].i]

Failure(url, filepath, error) == [url |-> url, filepath |-> filepath, error |-> error]

(* the loop left where it should go on *)
NextEntry_returns(w, l) == [w EXCEPT !.pc = "returned"]

(* the loop goes to its next entry, or the function returns (line 172) *)
NextEntry(w, l) ==
    IF w.i < Len(language_groups[l])
    THEN [w EXCEPT !.pc = "entry", !.i = w.i + 1]
    ELSE [w EXCEPT !.pc = "returned"]

(* language_failures.append(f) and on to the next entry *)
RecordFailure(l, f) ==
    /\ worker' = [worker EXCEPT ![l] =
                     NextEntry([worker[l] EXCEPT !.language_failures = Append(@, f)], l)]
    /\ log' = [log EXCEPT ![l] =
                  Append(@, [i |-> worker[l].i, outcome |-> "failed", record |-> f])]

(* the size test reversed *)
exists_non_empty_reversed(filepath) == fs[realpath(filepath)] = "empty"

(* os.path.exists(filepath) and os.path.getsize(filepath) > 0 *)
exists_non_empty(filepath) == fs[realpath(filepath)] = "nonempty"

(* lines 126-145: the checks made before any fetch *)
CheckEntry(l) ==
    /\ worker[l].pc = "entry"
    /\ LET entry == Entry(l)
           filepath == join(CAPTURES_DIR, entry.filepath)
           url == dict_get(entry, "url", NO_URL)
       IN IF "filepath" \notin DOMAIN entry
          THEN RecordFailure(l, Failure(url, <<"[MISSING FILEPATH]">>, "missing filepath"))
          ELSE IF ~is_safe_path(CAPTURES_DIR, filepath)
          THEN RecordFailure(l, Failure(url, filepath, "unsafe filepath"))
          ELSE IF url = NO_URL
          THEN RecordFailure(l, Failure(<<"[MISSING URL]">>, filepath,
                                        "Missing URL in config entry"))
          ELSE IF exists_non_empty(filepath)
          THEN /\ worker' = [worker EXCEPT ![l] = NextEntry(@, l)]
               /\ log' = [log EXCEPT ![l] =
                             Append(@, [i |-> worker[l].i, outcome |-> "skipped",
                                        record |-> Failure(url, filepath, "")])]
          ELSE /\ worker' = [worker EXCEPT ![l].pc = "fetch", ![l].attempt = 1,
                                           ![l].slept = <<>>, ![l].content = None]
               /\ log' = log
    /\ UNCHANGED <<config, dry_run, run, mainPc, expanded, language_groups, submitted,
                   collected, failures, notification, fs, created, fetched, writes,
                   prev_all_persisted>>

----------------------------------------------------------------------------
(* fetch_url (src/main.py:174-191)                                         *)

(* one turn too many *)
HasNextAttempt_off_by_one(attempt) == attempt <= MAX_RETRIES

(* range(1, MAX_RETRIES + 1) has a value after attempt *)
HasNextAttempt(attempt) == attempt + 1 <= MAX_RETRIES

(* time.sleep(BACKOFF_FACTOR ** attempt) *)
backoff(attempt) == Pow(BACKOFF_FACTOR, attempt)

(* one turn of the loop: a GET, its classification, and the sleep *)
fetch_step(w, resp) ==
    IF "exception" \in DOMAIN resp \/ resp.status \in RetryableStatus
    THEN LET slept == [w EXCEPT !.slept = Append(@, backoff(w.attempt))]
         IN IF HasNextAttempt(w.attempt)
            THEN [slept EXCEPT !.attempt = w.attempt + 1]
            ELSE [slept EXCEPT !.pc = "process", !.content = None]
    ELSE IF resp.status = 200
         THEN [w EXCEPT !.pc = "process", !.content = resp.text]
         ELSE [w EXCEPT !.pc = "process", !.content = None]

FetchAttempt(l) ==
    /\ worker[l].pc = "fetch"
    /\ \E resp \in Responses : worker' = [worker EXCEPT ![l] = fetch_step(@, resp)]
    /\ fetched' = fetched \cup {<<l, worker[l].i>>}
    /\ UNCHANGED <<config, dry_run, run, mainPc, expanded, language_groups, submitted,
                   collected, failures, notification, fs, created, log, writes,
                   prev_all_persisted>>


----------------------------------------------------------------------------
(* The rest of the loop body (src/main.py:147-171)                         *)

(* ET.fromstring(content) does not raise ParseError *)
parses(content) == content \in {"untransformable", "atom"}

(* transform_atom_to_rss (src/main.py:193-301): the RSS document, or None  *)
(* when anything raised while it was built                                 *)
transform_atom_to_rss(content, archive_base_url) ==
    IF content = "atom" THEN "rss" ELSE None

archive_base_url == dict_get(fixed_of(config.defs), "archive_base_url", <<>>)

(* `if content:` *)
truthy(content) == content /= None /\ content /= ""

(* save_content (src/main.py:303-307) writes the file; it can also raise   *)
(* OSError, which nothing in process_language_targets catches              *)
SaveContent(l, url, filepath) ==
    \/ /\ fs' = [fs EXCEPT ![realpath(filepath)] = "nonempty"]
       /\ created' = created \cup makedirs(os_path_dirname(filepath))
       /\ writes' = writes \cup {[path |-> realpath(filepath), by |-> l, i |-> worker[l].i,
                                  was |-> fs[realpath(filepath)]]}
       /\ worker' = [worker EXCEPT ![l] = NextEntry(@, l)]
       /\ log' = [log EXCEPT ![l] =
                     Append(@, [i |-> worker[l].i, outcome |-> "persisted",
                                record |-> Failure(url, filepath, "")])]
    \/ /\ worker' = [worker EXCEPT ![l].pc = "raised", ![l].language_failures = <<>>]
       /\ log' = [log EXCEPT ![l] =
                     Append(@, [i |-> worker[l].i, outcome |-> "raised",
                                record |-> Failure(url, filepath, "OSError")])]
       /\ UNCHANGED <<fs, created, writes>>

Process(l) ==
    /\ worker[l].pc = "process"
    /\ LET entry == Entry(l)
           filepath == join(CAPTURES_DIR, entry.filepath)
           url == entry.url
           content == worker[l].content
       IN IF truthy(content)
          THEN IF ~parses(content)
               THEN /\ RecordFailure(l, Failure(url, filepath, "invalid XML"))
                    /\ UNCHANGED <<fs, created, writes>>
               ELSE IF transform_atom_to_rss(content, archive_base_url) /= None
               THEN SaveContent(l, url, filepath)
               ELSE /\ RecordFailure(l, Failure(url, filepath, "RSS transformation failed"))
                    /\ UNCHANGED <<fs, created, writes>>
          ELSE /\ RecordFailure(l, Failure(url, filepath, "fetch failed"))
               /\ UNCHANGED <<fs, created, writes>>
    /\ UNCHANGED <<config, dry_run, run, mainPc, expanded, language_groups, submitted,
                   collected, failures, notification, fetched, prev_all_persisted>>

----------------------------------------------------------------------------
(* main, lines 395-411                                                     *)

thread_exception(l) == [language |-> l, error |-> "OSError", type |-> "thread_exception"]

(* as_completed yields a finished future; its result or its exception      *)
Collect(l) ==
    /\ mainPc = "as_completed"
    /\ l \in Done \ collected
    /\ failures' = IF worker[l].pc = "returned"
                   THEN failures \o worker[l].language_failures
                   ELSE Append(failures, thread_exception(l))
    /\ collected' = collected \cup {l}
    /\ UNCHANGED <<config, dry_run, run, mainPc, expanded, language_groups, submitted,
                   worker, notification, fs, created, log, fetched, writes,
                   prev_all_persisted>>

(* every future has been yielded; the pool shuts down; lines 405-411 *)
Finish ==
    /\ mainPc = "as_completed"
    /\ collected = DOMAIN worker
    /\ notification' = IF failures /= <<>> THEN Append(notification, failures)
                       ELSE notification
    /\ mainPc' = "finished"
    /\ UNCHANGED <<config, dry_run, run, expanded, language_groups, submitted, worker,
                   collected, failures, fs, created, log, fetched, writes,
                   prev_all_persisted>>

AllPersisted ==
    /\ expanded /= <<>>
    /\ \A l \in DOMAIN log :
          /\ Len(log[l]) = Len(language_groups[l])
          /\ \A k \in DOMAIN log[l] : log[l][k].outcome = "persisted"

(* The program is invoked again with the same configuration: nothing but   *)
(* the file system outlives a run                                          *)
Rerun ==
    /\ mainPc = "finished"
    /\ ~dry_run
    /\ run < MaxRuns
    /\ run' = run + 1
    /\ prev_all_persisted' = AllPersisted
    /\ mainPc' = "generate_folders"
    /\ expanded' = <<>>
    /\ language_groups' = NoWorkers
    /\ submitted' = <<>>
    /\ worker' = NoWorkers
    /\ collected' = {}
    /\ failures' = <<>>
    /\ notification' = <<>>
    /\ log' = NoWorkers
    /\ fetched' = {}
    /\ writes' = {}
    /\ UNCHANGED <<config, dry_run, fs, created>>

Next ==
    \/ GenerateFolders
    \/ Expand
    \/ DryRun
    \/ GroupAndSubmit
    \/ \E l \in DOMAIN worker : StartWorker(l)
    \/ \E l \in DOMAIN worker : CheckEntry(l)
    \/ \E l \in DOMAIN worker : FetchAttempt(l)
    \/ \E l \in DOMAIN worker : Process(l)
    \/ \E l \in DOMAIN worker : Collect(l)
    \/ Finish
    \/ Rerun

Spec == Init /\ [][Next]_vars

(* The steps of the pool's threads and of main's as_completed loop.  The   *)
(* threads are all scheduled, and every blocking call they make (a GET     *)
(* with a timeout, a sleep) returns: as long as one of these steps can be  *)
(* taken, one is taken.                                                    *)
PoolStep ==
    \/ \E l \in DOMAIN worker : StartWorker(l)
    \/ \E l \in DOMAIN worker : CheckEntry(l)
    \/ \E l \in DOMAIN worker : FetchAttempt(l)
    \/ \E l \in DOMAIN worker : Process(l)
    \/ \E l \in DOMAIN worker : Collect(l)
    \/ Finish

FairSpec == Spec /\ WF_vars(PoolStep)


----------------------------------------------------------------------------
(* Helpers of the properties                                               *)

(* the entry a log record is about *)
LoggedEntry(l, k) == language_groups[l][log[l][k].i]

(* save_content has written for entry i of partition l *)
Wrote(l, i) == \E w \in writes : w.by = l /\ w.i = i

(* worker l takes the step that leaves the checks of its current entry *)
LeavesChecks(l) ==
    /\ l \in DOMAIN worker /\ l \in DOMAIN worker'
    /\ worker[l].pc = "entry"
    /\ worker'[l] /= worker[l]

(* that step skipped the entry: no fetch, no write, no failure record *)
SkippedByStep(l) ==
    /\ Len(log'[l]) = Len(log[l]) + 1
    /\ log'[l][Len(log'[l])].outcome = "skipped"
    /\ log'[l][Len(log'[l])].i = worker[l].i
    /\ worker'[l].language_failures = worker[l].language_failures
    /\ <<l, worker[l].i>> \notin fetched'
    /\ writes' = writes /\ fs' = fs
    /\ worker'[l].pc \in {"entry", "returned"}

(* a skipped entry is never fetched or written afterwards *)
SkippedStaysSkipped ==
    \A l \in DOMAIN log' : \A k \in DOMAIN log'[l] :
        log'[l][k].outcome = "skipped" =>
            <<l, log'[l][k].i>> \notin fetched' /\ ~\E w \in writes' : w.by = l /\ w.i = log'[l][k].i

(* a run that started after a run that persisted every entry fetches nothing *)
SecondRunFetchesNothing == prev_all_persisted' => fetched' = {}

----------------------------------------------------------------------------
(* C1 *)

(* C1, as stated: whenever process_language_targets reaches an entry whose *)
(* destination file exists with size > 0, it makes no fetch attempt for    *)
(* it, does not write the file and records no failure; and a run started   *)
(* after a run that wrote every destination performs no fetch.             *)
C1_SkipWheneverDestinationNonEmpty ==
    [][/\ \A l \in DOMAIN worker :
             (LeavesChecks(l) /\ fs[Dest(Entry(l))] = "nonempty") => SkippedByStep(l)
       /\ SkippedStaysSkipped
       /\ SecondRunFetchesNothing]_vars

(* C1, amended: the same for an entry that has passed the filepath,        *)
(* path-safety and URL checks (an entry they reject gets its failure       *)
(* record even if its destination exists and is non-empty).                *)
C1_SkipAfterChecks ==
    [][/\ \A l \in DOMAIN worker :
             (/\ LeavesChecks(l)
              /\ fs[Dest(Entry(l))] = "nonempty"
              /\ "filepath" \in DOMAIN Entry(l)
              /\ IsUnder(Root, Dest(Entry(l)))
              /\ dict_get(Entry(l), "url", NO_URL) /= NO_URL) => SkippedByStep(l)
       /\ SkippedStaysSkipped
       /\ SecondRunFetchesNothing]_vars

(* a second run has finished with every entry skipped, after a first run   *)
(* that persisted every entry                                              *)
C1_Witness ==
    /\ run = 2 /\ prev_all_persisted /\ mainPc = "finished"
    /\ \E l \in DOMAIN log : Len(log[l]) = 2 /\ log[l][2].outcome = "skipped"

----------------------------------------------------------------------------
(* C2 *)

(* C2: an entry whose joined path resolves outside the resolved output     *)
(* root gets exactly one failure record, "unsafe filepath", is never       *)
(* fetched and never written; an entry whose path resolves inside the root *)
(* passes the check.                                                       *)
C2_PathSafety ==
    \A l \in DOMAIN worker :
        /\ \A k \in DOMAIN log[l] :
              /\ log[l][k].i = k
              /\ IF IsUnder(Root, Dest(LoggedEntry(l, k)))
                 THEN log[l][k].record.error /= "unsafe filepath"
                 ELSE /\ log[l][k].outcome = "failed"
                      /\ log[l][k].record.error = "unsafe filepath"
                      /\ <<l, k>> \notin fetched
                      /\ ~Wrote(l, k)
        /\ worker[l].pc \in {"fetch", "process"} => IsUnder(Root, Dest(Entry(l)))
        /\ Cardinality({j \in DOMAIN worker[l].language_failures :
                           worker[l].language_failures[j].error = "unsafe filepath"})
             = IF worker[l].pc = "raised" THEN 0
               ELSE Cardinality({k \in DOMAIN log[l] :
                                    ~IsUnder(Root, Dest(LoggedEntry(l, k)))})
    /\ \A w \in writes : IsUnder(Root, w.path)

(* both unsafe entries were rejected and the safe one after them was       *)
(* fetched and persisted                                                   *)
C2_Witness ==
    \E l \in DOMAIN log :
        /\ Len(log[l]) = 3
        /\ log[l][1].record.error = "unsafe filepath"
        /\ log[l][2].record.error = "unsafe filepath"
        /\ log[l][3].outcome = "persisted"

----------------------------------------------------------------------------
(* C3 *)

(* the sleeps of a call whose attempts all ended retryable *)
ExpectedSleeps == <<2, 4, 8>>

(* C3: a fetch_url call whose every attempt ends retryable makes exactly   *)
(* MAX_RETRIES attempts, sleeps BACKOFF_FACTOR^attempt after attempt       *)
(* number attempt, and then returns failure; there is never an attempt     *)
(* after the MAX_RETRIES-th.                                               *)
C3_RetryExhaustion ==
    \A l \in DOMAIN worker :
        LET w == worker[l]
        IN /\ w.attempt <= MAX_RETRIES
           /\ Len(w.slept) <= 3
           /\ w.slept = SubSeq(ExpectedSleeps, 1, Len(w.slept))
           \* in the loop: every earlier attempt was retryable and slept
           /\ w.pc = "fetch" => w.attempt >= 1 /\ Len(w.slept) = w.attempt - 1
           \* returned with every attempt retryable
           /\ (w.pc = "process" /\ Len(w.slept) = w.attempt) =>
                  w.attempt = 3 /\ w.content = None

(* a call has returned after three retryable attempts *)
C3_Witness ==
    \E l \in DOMAIN worker :
        /\ worker[l].pc = "process"
        /\ worker[l].attempt = 3
        /\ worker[l].slept = <<2, 4, 8>>
        /\ worker[l].content = None


----------------------------------------------------------------------------
(* C4 *)

Count(seq, x) == Cardinality({j \in DOMAIN seq : seq[j] = x})

IsSynthetic(f) == "type" \in DOMAIN f

(* the target-scoped records in main's list, and the synthetic ones *)
TargetRecords == SelectSeq(failures, LAMBDA f : ~IsSynthetic(f))
SyntheticRecords == SelectSeq(failures, LAMBDA f : IsSynthetic(f))

(* the positions <<l, k>> of the failure records the workers produced *)
Produced == {lk \in UNION {{<<l, k>> : k \in DOMAIN log[l]} : l \in DOMAIN log} :
                log[lk[1]][lk[2]].outcome = "failed"}

ProducedEqual(rec) == {lk \in Produced : log[lk[1]][lk[2]].record = rec}

(* C4: once every worker has been awaited, main's failure list holds every *)
(* failure record any worker produced, each exactly once, plus exactly one *)
(* synthetic record per partition whose worker ended with an unhandled     *)
(* exception, whatever the order of completion.                            *)
C4_FailureAggregation ==
    (mainPc = "finished" /\ ~dry_run) =>
        /\ \A lk \in Produced :
              LET rec == log[lk[1]][lk[2]].record
              IN Count(TargetRecords, rec) = Cardinality(ProducedEqual(rec))
        /\ Len(TargetRecords) = Cardinality(Produced)
        /\ \A l \in DOMAIN worker :
              Count(SyntheticRecords, thread_exception(l))
                = IF worker[l].pc = "raised" THEN 1 ELSE 0
        /\ Len(SyntheticRecords) = Cardinality({l \in DOMAIN worker : worker[l].pc = "raised"})

----------------------------------------------------------------------------
(* C5 *)

NoFault == \A l \in DOMAIN worker : worker[l].pc /= "raised"

(* the failure records of the first n log records, in order *)
FailedRecords(l) ==
    LET failed == SelectSeq(log[l], LAMBDA r : r.outcome = "failed")
    IN [j \in DOMAIN failed |-> failed[j].record]

(* outcomes are reached in worklist order, one per entry *)
OutcomesInOrder ==
    \A l \in DOMAIN log :
        /\ Len(log[l]) <= Len(language_groups[l])
        /\ \A k \in DOMAIN log[l] : log[l][k].i = k
        /\ worker[l].pc \in {"entry", "fetch", "process"} => worker[l].i = Len(log[l]) + 1

(* every entry of every partition has its one terminal outcome *)
EveryEntrySettled ==
    /\ DOMAIN log = {GroupKey(e) : e \in Range(expanded)}
    /\ \A l \in DOMAIN log :
          /\ Len(log[l]) = Len(language_groups[l])
          /\ \A k \in DOMAIN log[l] : log[l][k].outcome \in {"skipped", "persisted", "failed"}
          /\ worker[l].pc = "returned"
          /\ worker[l].language_failures = FailedRecords(l)
    /\ Len(expanded) = Cardinality(UNION {{<<l, k>> : k \in DOMAIN log[l]} : l \in DOMAIN log})

(* C5: in a run whose workers raise no unhandled exception, every entry of *)
(* every partition eventually reaches exactly one terminal outcome         *)
(* (skipped, persisted or one failure record), in worklist order, a        *)
(* failure does not stop the later entries, and the run terminates.        *)
C5_EveryEntrySettles ==
    /\ []OutcomesInOrder
    /\ [](mainPc = "finished" /\ ~dry_run /\ NoFault => EveryEntrySettled)
    /\ (mainPc = "as_completed" /\ NoFault) ~>
           (mainPc = "finished" /\ (NoFault => EveryEntrySettled))

(* a run has finished in which an entry failed and the next entry of its   *)
(* partition was persisted                                                 *)
C5_Witness ==
    /\ mainPc = "finished" /\ NoFault
    /\ \E l \in DOMAIN log :
          /\ Len(log[l]) = 2
          /\ log[l][1].outcome = "failed"
          /\ log[l][2].outcome = "persisted"

----------------------------------------------------------------------------
(* C6 *)

(* C6: whatever the number of partitions, a partition's worker never has   *)
(* to wait for another partition's worker to finish before it begins: as   *)
(* long as tasks are queued, one of them can start.                        *)
C6_NoWorkerWaitsForAnother ==
    (\E l \in DOMAIN worker : worker[l].pc = "queued") =>
        ENABLED (\E l \in DOMAIN worker : StartWorker(l))

----------------------------------------------------------------------------
(* C7 *)

(* C7: every directory and file the run creates lies inside the resolved   *)
(* output root.                                                            *)
C7_ArtifactsUnderRoot ==
    /\ \A d \in created : IsUnder(Root, d)
    /\ \A w \in writes : IsUnder(Root, w.path)

----------------------------------------------------------------------------
(* C8 *)

NeverRewritten ==
    /\ \A w \in writes : w.was /= "nonempty"
    /\ \A w1, w2 \in writes : w1.path = w2.path => w1.by = w2.by

(* C8, as stated: for every worklist and interleaving, a destination that  *)
(* has become non-empty is never written again and no destination is       *)
(* written by two different workers.                                       *)
C8_SnapshotsImmutable == NeverRewritten

(* no destination belongs to entries of two partitions *)
ExclusiveOwnership ==
    \A l1, l2 \in DOMAIN language_groups :
        l1 /= l2 =>
            {Dest(e) : e \in Range(language_groups[l1])}
              \cap {Dest(e) : e \in Range(language_groups[l2])} = {}

(* C8, amended: the same for every worklist in which no two partitions     *)
(* have an entry with the same resolved destination.                       *)
C8_SnapshotsImmutableWhenOwned == ExclusiveOwnership => NeverRewritten

(* two workers have each fetched and written their own file *)
C8_Witness ==
    /\ ExclusiveOwnership
    /\ \E w1, w2 \in writes : w1.by /= w2.by /\ w1.path /= w2.path

----------------------------------------------------------------------------
(* Helpers of the expansion properties: sizes and positions, computed by   *)
(* arithmetic on the configuration                                         *)

RECURSIVE Prod(_)
Prod(sizes) == IF sizes = <<>> THEN 1 ELSE Head(sizes) * Prod(Tail(sizes))

RECURSIVE Sum(_)
Sum(ns) == IF ns = <<>> THEN 0 ELSE Head(ns) + Sum(Tail(ns))

(* the list axes of a dict, by sorted name, and their sizes *)
AxisKeys(d) == sorted({k \in DOMAIN d : "list" \in DOMAIN d[k]})
AxisSizes(d) == [j \in DOMAIN AxisKeys(d) |-> Len(d[AxisKeys(d)[j]].list)]

VarsOf(target) == IF "vars" \in DOMAIN target THEN target.vars ELSE EmptyDict

(* n1*...*nk and m1*...*mj *)
DefsProduct == Prod(AxisSizes(config.defs))
TargetProduct(target) == Prod(AxisSizes(VarsOf(target)))

(* the entries one defs context gives *)
PerContext == Sum([t \in DOMAIN config.target |-> TargetProduct(config.target[t])])

(* the expansion has just been computed *)
JustExpanded == mainPc \in {"dry_run", "group"}

(* the value that axis j of d has in combination number c (from 0), the    *)
(* last axis varying fastest                                               *)
AxisValueAt(d, j, c) ==
    LET sizes == AxisSizes(d)
        later == Prod(SubSeq(sizes, j + 1, Len(sizes)))
    IN d[AxisKeys(d)[j]].list[((c \div later) % sizes[j]) + 1]

(* entry k of the worklist: its defs context, its target, and its          *)
(* combination of that target's axes (all from 0 but the target)           *)
ContextOf(k) == (k - 1) \div PerContext

RECURSIVE Locate(_, _)
Locate(r, t) ==
    IF r < TargetProduct(config.target[t]) THEN [target |-> t, combo |-> r]
    ELSE Locate(r - TargetProduct(config.target[t]), t + 1)

PlaceOf(k) == Locate((k - 1) % PerContext, 1)

(* the variable name an axis of defs is exposed under *)
Singular(key) ==
    CASE key = "langs" -> "lang" [] key = "kinds" -> "kind" [] key = "tags" -> "tag"
      [] OTHER -> key

LangsIsAxis == "langs" \in DOMAIN config.defs /\ "list" \in DOMAIN config.defs["langs"]

(* the langs value of the defs context entry k was expanded from *)
LangsValueAt(k) ==
    LET j == CHOOSE j \in DOMAIN AxisKeys(config.defs) : AxisKeys(config.defs)[j] = "langs"
    IN AxisValueAt(config.defs, j, ContextOf(k))

(* the variable expand_targets looks up for the tag *)
LangKey == IF LangsIsAxis THEN "lang" ELSE "langs"

(* the value of variable name in the merged scope of entry k, as a set:    *)
(* empty when the scope has no such variable.  The target's axes shadow    *)
(* its fixed vars, which shadow the defs context, whose axes (the last in  *)
(* sorted order first) shadow the fixed defs.                              *)
ScopeValue(k, name) ==
    LET tv == VarsOf(config.target[PlaceOf(k).target])
        d == config.defs
        axes == {j \in DOMAIN AxisKeys(d) : Singular(AxisKeys(d)[j]) = name}
    IN IF name \in DOMAIN tv /\ "list" \in DOMAIN tv[name]
       THEN {AxisValueAt(tv, CHOOSE j \in DOMAIN AxisKeys(tv) : AxisKeys(tv)[j] = name,
                         PlaceOf(k).combo)}
       ELSE IF name \in DOMAIN tv THEN {tv[name].scalar}
       ELSE IF axes /= {}
       THEN {AxisValueAt(d, CHOOSE j \in axes : \A j2 \in axes : j2 <= j, ContextOf(k))}
       ELSE IF name \in DOMAIN d /\ "scalar" \in DOMAIN d[name] THEN {d[name].scalar}
       ELSE {}

(* the partitions are the groups of entries per tag *)
PartitionsAreTagGroups ==
    mainPc \in {"as_completed", "finished"} /\ ~dry_run =>
        /\ DOMAIN language_groups = {dict_get(e, "lang", DefaultLang) : e \in Range(expanded)}
        /\ \A l \in DOMAIN language_groups :
              \A e \in Range(language_groups[l]) : dict_get(e, "lang", DefaultLang) = l
        /\ Sum([j \in DOMAIN submitted |-> Len(language_groups[submitted[j]])]) = Len(expanded)

----------------------------------------------------------------------------
(* C9 *)

(* C9: for defs axes of sizes n1..nk and a target with axes of sizes       *)
(* m1..mj, expand_targets emits n1*...*nk * m1*...*mj entries for that     *)
(* target: zero if an axis is empty, a factor of one for a scope without   *)
(* axes, and the same when two defs axes share a singularized name.        *)
C9_ExpansionCardinality ==
    JustExpanded =>
        /\ Len(expanded) = DefsProduct * PerContext
        /\ \A t \in DOMAIN config.target :
              Len(expand_targets(config.defs, <<config.target[t]>>))
                = DefsProduct * TargetProduct(config.target[t])

(* defs axes lang and langs (both exposed as lang) and tags, two values    *)
(* each, and a target with an axis of two values: 16 entries               *)
C9_Witness ==
    /\ mainPc = "dry_run"
    /\ AxisKeys(config.defs) = <<"lang", "langs", "tags">>
    /\ AxisSizes(config.defs) = <<2, 2, 2>>
    /\ Len(config.target) = 1
    /\ AxisSizes(VarsOf(config.target[1])) = <<2>>
    /\ Len(expanded) = 16

----------------------------------------------------------------------------
(* C10 *)

----------------------------------------------------------------------------
(* C11 *)

(* worker l takes the step that ends fetch_url for its current entry *)
FetcherEnds(l) ==
    /\ l \in DOMAIN worker /\ l \in DOMAIN worker'
    /\ worker[l].pc = "fetch"
    /\ worker'[l].pc = "process"

(* fetch_url ended in failure: it returned None and no body *)
FetcherFailed(w) == w.content = None

(* the fetcher stopped on a status it does not retry: the attempt it made  *)
(* was not followed by a sleep or by another attempt                       *)
StoppedWithoutRetry(l) ==
    /\ worker'[l].attempt = worker[l].attempt
    /\ worker'[l].slept = worker[l].slept

(* the fetcher gave up after its last attempt *)
RetriesExhausted(l) ==
    /\ worker[l].attempt = MAX_RETRIES
    /\ Len(worker'[l].slept) = MAX_RETRIES

(* worker l takes the step that runs the rest of the loop body on what the *)
(* fetcher returned                                                        *)
RunsPipeline(l) ==
    /\ l \in DOMAIN worker /\ l \in DOMAIN worker'
    /\ worker[l].pc = "process"
    /\ worker'[l] /= worker[l]

(* that step appended one failure record, of this kind, for the entry *)
RecordedKind(l, kind) ==
    /\ Len(worker'[l].language_failures) = Len(worker[l].language_failures) + 1
    /\ worker'[l].language_failures[Len(worker'[l].language_failures)].error = kind
    /\ log'[l][Len(log'[l])].i = worker[l].i

(* that step wrote the destination of the entry *)
WroteDestination(l) ==
    /\ \E w \in writes' \ writes : w.by = l /\ w.i = worker[l].i
    /\ fs'[realpath(join(CAPTURES_DIR, Entry(l).filepath))] = "nonempty"

(* that step left every file as it was *)
LeftUntouched == fs' = fs /\ writes' = writes /\ created' = created

(* C11: for an entry that passes the config, path-safety and skip checks,  *)
(* the runner records the failure of the first failing step in the order   *)
(* fetch, XML validation, normalization and nothing else: "fetch failed"   *)
(* exactly when the fetcher ended in failure (retries exhausted, or a      *)
(* status that is not retried, then with no retry after it), "invalid XML" *)
(* exactly when a fetched HTTP-200 body does not parse, "RSS               *)
(* transformation failed" exactly when normalization fails; the            *)
(* destination is written exactly when all three steps succeed and is left *)
(* untouched otherwise.                                                    *)
C11_FailureKindClassification ==
    [][\A l \in DOMAIN worker :
          /\ (FetcherEnds(l) /\ FetcherFailed(worker'[l])) =>
                StoppedWithoutRetry(l) \/ RetriesExhausted(l)
          /\ RunsPipeline(l) =>
                LET content == worker[l].content
                    fetch_ok == ~FetcherFailed(worker[l])
                    parse_ok == fetch_ok /\ parses(content)
                    transform_ok ==
                        parse_ok /\ transform_atom_to_rss(content, archive_base_url) /= None
                IN /\ RecordedKind(l, "fetch failed") <=> ~fetch_ok
                   /\ RecordedKind(l, "invalid XML") <=> (fetch_ok /\ ~parse_ok)
                   /\ RecordedKind(l, "RSS transformation failed")
                         <=> (parse_ok /\ ~transform_ok)
                   /\ Len(worker'[l].language_failures)
                         <= Len(worker[l].language_failures) + 1
                   /\ WroteDestination(l) <=> transform_ok
                   /\ ~transform_ok => LeftUntouched]_vars


====
